---- MODULE Spec2Model ----
(***************************************************************************)
(* sparse_array_set (lib/data_structure/sparse_array_set.h): a set of node *)
(* ids kept in the prefix elements[first..last] of a std::vector<int>.     *)
(*                                                                         *)
(* An object is a record [elements, first, last]; elements is the vector   *)
(* (a sequence, so C++ index i is position i + 1 and Len is the vector's   *)
(* size()).  Every method is an operator from the object before the call   *)
(* to the object after it, and an action applies it to one of the objects  *)
(* in `sets`.  A method that indexes the vector outside 0..size()-1 has    *)
(* undefined behaviour: the model has a predicate <method>OK for each      *)
(* method that says when the call stays inside the vector, and a call made *)
(* when it is false sets `ub`; nothing is stated about an execution after  *)
(* that point, which has no defined continuation.                          *)
(***************************************************************************)
EXTENDS Integers, Sequences, FiniteSets

VARIABLES sets, pc, op, ub, todo, given

vars == <<sets, pc, op, ub, todo, given>>

(* ------------------------------ bounds --------------------------------- *)

\* largest size passed to the constructor, resize and init, and largest
\* adj.size(), in the specifications of one object
MaxCap == 3
\* largest size passed to the constructor in the specification of two objects
MaxCapOther == 2
\* the node ids passed to the methods are 0..MaxVal
MaxVal == 2
\* the same in the specification of two objects
MaxValOther == 1
\* longest neighbour list of an adjacency array
MaxNbrs == 2

Sets == {"A", "B"}
Vals == 0 .. MaxVal
MoveVals == 0 .. MaxValOther

(* ------------------------- the object's state -------------------------- *)

\* the value the constructor and resize fill new slots with
Fill == -1

RECURSIVE Filled(_)
Filled(n) == IF n <= 0 THEN << >> ELSE Append(Filled(n - 1), Fill)

\* sparse_array_set(unsigned int size); sparse_array_set() is New(0)
New(cap) == [elements |-> Filled(cap), first |-> 0, last |-> -1]

\* int at(unsigned int index)
at(S, index) == S.elements[index + 1]

\* The modulus of the conversion int -> unsigned int in size().  unsigned int
\* is 32 bits wide; TLC's integers end at 2^31 - 1, so 2^30 stands for 2^32:
\* a negative difference still wraps round to a huge size.
UIntModulus == 1073741824

\* unsigned int size() const: int arithmetic converted to unsigned int
size(S) == (S.last - S.first + 1) % UIntModulus

\* bool empty() const
empty(S) == S.last < S.first

\* begin() and end() are elements.begin() + first and elements.begin() +
\* last + 1: the range they delimit lies in the vector iff this holds
InBounds(S) == S.first >= 0 /\ S.last + 1 <= Len(S.elements)

\* the indices the range-for of contains and the loop of remove visit
Active(S) == S.first .. S.last

\* the sequence a range-for over the set visits, from begin() to end()
begin_end(S) == SubSeq(S.elements, S.first + 1, S.last + 1)

\* bool contains(int x) const
containsOK(S) == InBounds(S)

\* (mutant of contains: scans the whole vector, not the active range)
containsWholeVector(S, x) == \E k \in DOMAIN S.elements : S.elements[k] = x

contains(S, x) == \E index \in Active(S) : at(S, index) = x

\* the values contains answers true for
members(S) == {v \in {S.elements[k] : k \in DOMAIN S.elements} : contains(S, v)}

\* void insert(int x)
insertOK(S, x) ==
    /\ containsOK(S)
    /\ contains(S, x) \/ S.last + 1 < Len(S.elements)

\* (mutant of insert: no duplicate check)
insertNoCheck(S, x) ==
    [S EXCEPT !.last = S.last + 1,
              !.elements = [k \in DOMAIN S.elements |->
                               IF k = S.last + 2 THEN x ELSE S.elements[k]]]

\* (mutant of insert: writes the slot before it moves the cursor)
insertWriteFirst(S, x) ==
    IF contains(S, x) THEN S
    ELSE [S EXCEPT !.last = S.last + 1,
                   !.elements = [k \in DOMAIN S.elements |->
                                    IF k = S.last + 1 THEN x ELSE S.elements[k]]]

insert(S, x) ==
    IF contains(S, x) THEN S
    ELSE [S EXCEPT !.last = S.last + 1,
                   !.elements = [S.elements EXCEPT ![S.last + 2] = x]]

\* void remove(int x): the loop reads elements[first..last], and
\* elements[last] once x is found
removeOK(S, x) == InBounds(S)

\* the index at which the loop of remove finds x: the first of the active
\* range that holds it
foundAt(S, x) ==
    LET hits == {index \in Active(S) : at(S, index) = x} IN
    CHOOSE i \in hits : \A j \in hits : i <= j

\* (mutant of remove: closes the gap by shifting the later slots down)
removeShift(S, x) ==
    IF ~contains(S, x) THEN S
    ELSE [S EXCEPT !.elements = [k \in DOMAIN S.elements |->
                                    IF k - 1 < foundAt(S, x) THEN S.elements[k]
                                    ELSE IF k - 1 < S.last THEN S.elements[k + 1]
                                    ELSE IF k - 1 = S.last THEN x
                                    ELSE S.elements[k]],
                   !.last = S.last - 1]

\* (mutant of remove: overwrites the slot of x and leaves the last slot)
removeOverwrite(S, x) ==
    IF ~contains(S, x) THEN S
    ELSE [S EXCEPT !.elements = [k \in DOMAIN S.elements |->
                                    IF k = foundAt(S, x) + 1 THEN at(S, S.last)
                                    ELSE S.elements[k]],
                   !.last = S.last - 1]

\* (mutant of remove: looks for x in the whole vector)
removeWholeVector(S, x) ==
    IF \E k \in DOMAIN S.elements : S.elements[k] = x
    THEN [S EXCEPT !.last = S.last - 1]
    ELSE S

\* (mutant of remove: swaps x to the end and leaves the cursor)
removeNoPop(S, x) ==
    LET hits == {index \in Active(S) : at(S, index) = x} IN
    IF hits = {} THEN S
    ELSE LET index == CHOOSE i \in hits : \A j \in hits : i <= j IN
         [S EXCEPT !.elements = [k \in DOMAIN S.elements |->
                                    IF k = S.last + 1 THEN x
                                    ELSE IF k = index + 1 THEN at(S, S.last)
                                    ELSE S.elements[k]]]

remove(S, x) ==
    LET hits == {index \in Active(S) : at(S, index) = x} IN
    IF hits = {} THEN S
    ELSE LET index == CHOOSE i \in hits : \A j \in hits : i <= j IN
         [S EXCEPT !.elements = [k \in DOMAIN S.elements |->
                                    IF k = S.last + 1 THEN x
                                    ELSE IF k = index + 1 THEN at(S, S.last)
                                    ELSE S.elements[k]],
                   !.last = S.last - 1]

\* (mutant of resize: elements.assign(size, -1))
resizeAssign(S, n) == [S EXCEPT !.elements = Filled(n)]

\* void resize(unsigned int size): elements.resize(size, -1)
resize(S, n) ==
    [S EXCEPT !.elements =
        IF n <= Len(S.elements) THEN SubSeq(S.elements, 1, n)
        ELSE S.elements \o Filled(n - Len(S.elements))]

\* (mutant of init: the resize without the reset of the cursors)
initNoReset(S, n) ==
    [S EXCEPT !.elements =
        IF n <= Len(S.elements) THEN SubSeq(S.elements, 1, n)
        ELSE S.elements \o Filled(n - Len(S.elements))]

\* void init(unsigned int size)
init(S, n) == [resize(S, n) EXCEPT !.first = 0, !.last = -1]

\* void clear()
clear(S) == [S EXCEPT !.first = 0, !.last = -1]

\* the loop of init_from_adj: insert(neighbor) for each neighbor in order
RECURSIVE insertAllOK(_, _)
insertAllOK(S, nbrs) ==
    \/ nbrs = << >>
    \/ /\ insertOK(S, Head(nbrs))
       /\ insertAllOK(insert(S, Head(nbrs)), Tail(nbrs))

RECURSIVE insertAll(_, _)
insertAll(S, nbrs) ==
    IF nbrs = << >> THEN S
    ELSE insertAll(insert(S, Head(nbrs)), Tail(nbrs))

\* void init_from_adj(std::vector<std::vector<int>> & adj, int node);
\* adj[node] is adj[node + 1] of the sequence modelling adj
init_from_adjOK(S, adj, node) ==
    insertAllOK(resize(S, Len(adj)), adj[node + 1])
init_from_adj(S, adj, node) ==
    insertAll(resize(S, Len(adj)), adj[node + 1])

(* ------------------------------- inputs -------------------------------- *)

RECURSIVE SeqsUpTo(_, _)
SeqsUpTo(D, n) ==
    IF n = 0 THEN {<< >>}
    ELSE LET shorter == SeqsUpTo(D, n - 1) IN
         shorter \cup {Append(q, d) : q \in {r \in shorter : Len(r) = n - 1}, d \in D}

Range(q) == {q[k] : k \in DOMAIN q}

\* neighbour lists: ascending, a neighbour possibly listed twice
NbrLists ==
    {q \in SeqsUpTo(Vals, MaxNbrs) : \A k \in 1 .. Len(q) - 1 : q[k] <= q[k + 1]}

\* the adjacency array of n nodes in which the last node has the neighbours
\* nbrs and the other nodes have none (init_from_adj reads adj.size() and
\* adj[node] only)
Adj(n, nbrs) == [k \in 1 .. n |-> IF k = n THEN nbrs ELSE << >>]

\* the values of the round trip: one more than the largest capacity holds
TripVals == 0 .. MaxCap
Trips == {q \in SeqsUpTo(TripVals, MaxCap) : Cardinality(Range(q)) = Len(q)}

(* --------------------------- the program state ------------------------- *)
(* sets  : the objects                                                     *)
(* pc    : where a move_to in progress stands                              *)
(* op    : the last call: its name, receiver s, argument `other` o;        *)
(*         hit: x was in the active range of s before the call (insert,    *)
(*         remove, move_to), or the vector got shorter (resize, init,      *)
(*         init_from_adj); ohit: x was in the active range of o before     *)
(*         move_to                                                         *)
(* ub    : some call has indexed a vector outside its bounds               *)
(* given, todo : the values of a round trip, and those still to insert     *)

Idle == [at |-> "idle"]

Op(name, s, o, hit, ohit) ==
    [name |-> name, s |-> s, o |-> o, hit |-> hit, ohit |-> ohit]

Has(S, x) == InBounds(S) /\ contains(S, x)

Init ==
    /\ \E cap \in 0 .. MaxCap :
           sets = [s \in Sets |-> IF s = "A" THEN New(cap) ELSE New(0)]
    /\ pc = Idle
    /\ op = Op("new", "A", "A", FALSE, FALSE)
    /\ ub = FALSE
    /\ todo = << >>
    /\ given = << >>

InitMove ==
    /\ \E sa \in 0 .. MaxCapOther, sb \in 0 .. MaxCapOther :
           sets = [s \in Sets |-> IF s = "A" THEN New(sa) ELSE New(sb)]
    /\ pc = Idle
    /\ op = Op("new", "A", "A", FALSE, FALSE)
    /\ ub = FALSE
    /\ todo = << >>
    /\ given = << >>

InitRoundTrip ==
    /\ \E cap \in 0 .. MaxCap, trip \in Trips :
           /\ Len(trip) <= cap
           /\ sets = [s \in Sets |-> IF s = "A" THEN New(cap) ELSE New(0)]
           /\ todo = trip
           /\ given = trip
    /\ pc = Idle
    /\ op = Op("new", "A", "A", FALSE, FALSE)
    /\ ub = FALSE

(* ------------------------------- actions ------------------------------- *)

Ready == pc = Idle /\ ~ub

\* s.insert(x)
InsertCall(s, x) ==
    /\ Ready
    /\ op' = Op("insert", s, s, Has(sets[s], x), FALSE)
    /\ IF insertOK(sets[s], x)
       THEN sets' = [sets EXCEPT ![s] = insert(sets[s], x)] /\ ub' = ub
       ELSE sets' = sets /\ ub' = TRUE
    /\ pc' = pc

Insert(s, x) == InsertCall(s, x) /\ UNCHANGED <<todo, given>>

\* s.remove(x)
RemoveCall(s, x) ==
    /\ Ready
    /\ op' = Op("remove", s, s, Has(sets[s], x), FALSE)
    /\ IF removeOK(sets[s], x)
       THEN sets' = [sets EXCEPT ![s] = remove(sets[s], x)] /\ ub' = ub
       ELSE sets' = sets /\ ub' = TRUE
    /\ pc' = pc

Remove(s, x) == RemoveCall(s, x) /\ UNCHANGED <<todo, given>>

\* (mutant of the first statement: the whole move in one step)
MoveToWhole(s, o, x) ==
    /\ Ready
    /\ op' = Op("move_to", s, o, Has(sets[s], x), Has(sets[o], x))
    /\ LET removed == [sets EXCEPT ![s] = remove(sets[s], x)] IN
       IF removeOK(sets[s], x) /\ insertOK(removed[o], x)
       THEN /\ sets' = [removed EXCEPT ![o] = insert(removed[o], x)]
            /\ pc' = [at |-> "moving", s |-> s, o |-> o, x |-> x]
            /\ ub' = ub
       ELSE sets' = sets /\ pc' = pc /\ ub' = TRUE
    /\ UNCHANGED <<todo, given>>

\* s.move_to(x, o), first statement: remove(x)
MoveToRemove(s, o, x) ==
    /\ Ready
    /\ op' = Op("move_to", s, o, Has(sets[s], x), Has(sets[o], x))
    /\ IF removeOK(sets[s], x)
       THEN /\ sets' = [sets EXCEPT ![s] = remove(sets[s], x)]
            /\ pc' = [at |-> "moving", s |-> s, o |-> o, x |-> x]
            /\ ub' = ub
       ELSE sets' = sets /\ pc' = pc /\ ub' = TRUE
    /\ UNCHANGED <<todo, given>>

\* (mutant of the second statement: insert(x) on the receiver)
MoveToInsertSelf ==
    /\ pc.at = "moving"
    /\ ~ub
    /\ pc' = Idle
    /\ IF insertOK(sets[pc.s], pc.x)
       THEN sets' = [sets EXCEPT ![pc.s] = insert(sets[pc.s], pc.x)] /\ ub' = ub
       ELSE sets' = sets /\ ub' = TRUE
    /\ UNCHANGED <<op, todo, given>>

\* (mutant of the second statement: insert(x) only if remove found x)
MoveToInsertIfFound ==
    /\ pc.at = "moving"
    /\ ~ub
    /\ pc' = Idle
    /\ IF ~op.hit
       THEN sets' = sets /\ ub' = ub
       ELSE IF insertOK(sets[pc.o], pc.x)
            THEN sets' = [sets EXCEPT ![pc.o] = insert(sets[pc.o], pc.x)] /\ ub' = ub
            ELSE sets' = sets /\ ub' = TRUE
    /\ UNCHANGED <<op, todo, given>>

\* s.move_to(x, o), second statement: other.insert(x)
MoveToInsert ==
    /\ pc.at = "moving"
    /\ ~ub
    /\ pc' = Idle
    /\ IF insertOK(sets[pc.o], pc.x)
       THEN sets' = [sets EXCEPT ![pc.o] = insert(sets[pc.o], pc.x)] /\ ub' = ub
       ELSE sets' = sets /\ ub' = TRUE
    /\ UNCHANGED <<op, todo, given>>

\* s.clear()
Clear(s) ==
    /\ Ready
    /\ op' = Op("clear", s, s, FALSE, FALSE)
    /\ sets' = [sets EXCEPT ![s] = clear(sets[s])]
    /\ UNCHANGED <<pc, ub, todo, given>>

\* s.resize(n)
Resize(s, n) ==
    /\ Ready
    /\ op' = Op("resize", s, s, n < Len(sets[s].elements), FALSE)
    /\ sets' = [sets EXCEPT ![s] = resize(sets[s], n)]
    /\ UNCHANGED <<pc, ub, todo, given>>

\* s.init(n)
InitCall(s, n) ==
    /\ Ready
    /\ op' = Op("init", s, s, n < Len(sets[s].elements), FALSE)
    /\ sets' = [sets EXCEPT ![s] = init(sets[s], n)]
    /\ UNCHANGED <<pc, ub, todo, given>>

\* s.init_from_adj(adj, node)
InitFromAdj(s, adj, node) ==
    /\ Ready
    /\ op' = Op("init_from_adj", s, s, Len(adj) < Len(sets[s].elements), FALSE)
    /\ IF init_from_adjOK(sets[s], adj, node)
       THEN sets' = [sets EXCEPT ![s] = init_from_adj(sets[s], adj, node)] /\ ub' = ub
       ELSE sets' = sets /\ ub' = TRUE
    /\ UNCHANGED <<pc, todo, given>>

(* One object, A, and every method of it (move_to with itself as other).   *)

DoInsert == \E x \in Vals : Insert("A", x)
DoRemove == \E x \in Vals : Remove("A", x)
DoMoveToRemove == \E x \in Vals : MoveToRemove("A", "A", x)
DoClear == Clear("A")
DoResize == \E n \in 0 .. MaxCap : Resize("A", n)
DoInit == \E n \in 0 .. MaxCap : InitCall("A", n)
DoInitFromAdj ==
    \E n \in 1 .. MaxCap, nbrs \in NbrLists : InitFromAdj("A", Adj(n, nbrs), n - 1)

Next ==
    \/ DoInsert
    \/ DoRemove
    \/ DoMoveToRemove
    \/ MoveToInsert
    \/ DoClear
    \/ DoResize
    \/ DoInit
    \/ DoInitFromAdj

Spec == Init /\ [][Next]_vars

(* The same without direct calls of resize: the operations insert, remove, *)
(* move_to, clear, init and init_from_adj.                                 *)

NextOps ==
    \/ DoInsert
    \/ DoRemove
    \/ DoMoveToRemove
    \/ MoveToInsert
    \/ DoClear
    \/ DoInit
    \/ DoInitFromAdj

SpecOps == Init /\ [][NextOps]_vars

(* Two objects, A and B, of fixed capacity: insert, remove, clear and      *)
(* move_to between them in both directions.                                *)

BothInsert == \E s \in Sets, x \in MoveVals : Insert(s, x)
BothRemove == \E s \in Sets, x \in MoveVals : Remove(s, x)
BothMoveToRemove == \E s \in Sets, o \in Sets, x \in MoveVals : MoveToRemove(s, o, x)
BothClear == \E s \in Sets : Clear(s)

NextMove ==
    \/ BothInsert
    \/ BothRemove
    \/ BothMoveToRemove
    \/ MoveToInsert
    \/ BothClear

SpecMove == InitMove /\ [][NextMove]_vars

(* A round trip: the values of `given` inserted one by one into a fresh A. *)

TripInsert ==
    /\ todo # << >>
    /\ InsertCall("A", Head(todo))
    /\ todo' = Tail(todo)
    /\ given' = given

SpecRoundTrip == InitRoundTrip /\ [][TripInsert]_vars

(* One object and the calls insert, remove, clear and init, with `given`   *)
(* recording the index at which the latest remove found its argument.      *)

SwapRemove ==
    \E x \in Vals :
        /\ RemoveCall("A", x)
        /\ given' = IF Has(sets["A"], x) THEN <<foundAt(sets["A"], x)>> ELSE << >>
        /\ todo' = todo

NextSwap ==
    \/ DoInsert
    \/ SwapRemove
    \/ DoClear
    \/ DoInit

SpecSwap == Init /\ [][NextSwap]_vars

(* Two objects that are never resized, each used within its capacity c:    *)
(* the values passed to its insert, and to a move_to from it or to it, are *)
(* node ids of 0..c-1; init(c) gives an object a new capacity.             *)

CapVals(s) == 0 .. Len(sets[s].elements) - 1

CapInsert == \E s \in Sets : \E x \in CapVals(s) : Insert(s, x)
CapMoveToRemove ==
    \E s \in Sets, o \in Sets :
        \E x \in CapVals(s) \cap CapVals(o) : MoveToRemove(s, o, x)
CapInit == \E s \in Sets, n \in 0 .. MaxCapOther : InitCall(s, n)

NextCap ==
    \/ CapInsert
    \/ BothRemove
    \/ CapMoveToRemove
    \/ MoveToInsert
    \/ BothClear
    \/ CapInit

SpecCap == InitMove /\ [][NextCap]_vars

(* ------------------------------- claims -------------------------------- *)

\* the slots of the active range that exist in the vector
Stored(S) == {index \in Active(S) : index < Len(S.elements)}

\* the slots outside the active range
Stale(S) == {index \in 0 .. Len(S.elements) - 1 : index > S.last}

\* C1 (invariant I2): in every state reached by insert, remove, move_to,
\* clear, init and init_from_adj, the values stored in the active range
\* elements[first..last] are pairwise distinct.
C1_ActiveDistinct ==
    \A s \in Sets :
        \A i \in Stored(sets[s]), j \in Stored(sets[s]) :
            i # j => at(sets[s], i) # at(sets[s], j)

\* C2 (cursor invariant): in every reachable state first = 0 and
\* last >= first - 1, size() = last - first + 1 does not wrap, size() is the
\* number of members, and empty() is true exactly when size() = 0.
C2_CursorInvariant ==
    \A s \in Sets :
        LET S == sets[s] IN
        /\ S.first = 0
        /\ S.last >= S.first - 1
        /\ size(S) = S.last - S.first + 1
        /\ InBounds(S) => size(S) = Cardinality(members(S))
        /\ empty(S) <=> size(S) = 0

\* C3 (round trip): once n <= c pairwise distinct values have all been
\* inserted into a fresh set of capacity c, size() = n, contains(v) is true
\* for each of them and false for every other value; no insert of the trip
\* leaves the vector.
C3_RoundTrip ==
    /\ ~ub
    /\ todo = << >> =>
           /\ size(sets["A"]) = Len(given)
           /\ \A v \in TripVals \cup {Fill} :
                  contains(sets["A"], v) <=> v \in Range(given)

\* a finished trip of two values in a set of capacity three: one slot is
\* left holding the fill value
C3_Witness ==
    /\ todo = << >>
    /\ Len(given) = 2
    /\ Len(sets["A"].elements) = 3
    /\ op.name = "insert"

\* the active range holds no value twice
Distinct(S) ==
    \A i \in Stored(S), j \in Stored(S) : i # j => at(S, i) # at(S, j)

\* the slot after the cursor exists
HasRoom(S) == S.last + 1 < Len(S.elements)

\* C4 (insert idempotence): where contains(x) is true, insert(x) changes
\* nothing (size, cursors, every slot) and contains(x) stays true; and after
\* any insert(x) a second insert(x) would change nothing.
C4_InsertIdempotent ==
    [][\A s \in {op'.s}, x \in Vals :
        /\ (Insert(s, x) /\ Has(sets[s], x)) =>
               /\ sets' = sets
               /\ ~ub'
               /\ size(sets'[s]) = size(sets[s])
               /\ Has(sets'[s], x)
        /\ (Insert(s, x) /\ insertOK(sets[s], x)) =>
               /\ insertOK(sets'[s], x)
               /\ insert(sets'[s], x) = sets'[s]]_vars

\* insert(x) was called with x a member, in a set of two or more members
C4_Witness ==
    /\ op.name = "insert"
    /\ op.hit
    /\ ~ub
    /\ size(sets["A"]) >= 2

\* C5 (removal absence): where x is not a member, also when x is still in a
\* slot outside the active range, remove(x) leaves size(), the cursors and the
\* members unchanged.
C5_RemoveAbsent ==
    [][\A s \in {op'.s}, x \in Vals :
        (Remove(s, x) /\ InBounds(sets[s]) /\ ~contains(sets[s], x)) =>
            /\ ~ub'
            /\ size(sets'[s]) = size(sets[s])
            /\ sets'[s].first = sets[s].first
            /\ sets'[s].last = sets[s].last
            /\ members(sets'[s]) = members(sets[s])]_vars

\* remove(x) was called with x not a member, in a non-empty set where every
\* node id that is not a member is still in a slot outside the active range
C5_Witness ==
    /\ op.name = "remove"
    /\ ~op.hit
    /\ ~ub
    /\ InBounds(sets["A"])
    /\ size(sets["A"]) >= 1
    /\ \A v \in Vals :
           \/ contains(sets["A"], v)
           \/ \E index \in Stale(sets["A"]) : at(sets["A"], index) = v

\* C6 (remove/reinsert): where x is a member, remove(x) makes contains(x)
\* false, decreases size() by 1 and keeps every other member; insert(x) after
\* it makes contains(x) true and restores the members and the size.
C6_RemoveReinsert ==
    [][\A s \in {op'.s}, x \in Vals :
        (Remove(s, x) /\ Has(sets[s], x)) =>
            LET S == sets[s]
                R == sets'[s]
                T == insert(R, x)
            IN  /\ ~ub'
                /\ InBounds(R)
                /\ ~contains(R, x)
                /\ size(R) = size(S) - 1
                /\ members(R) = members(S) \ {x}
                /\ insertOK(R, x)
                /\ contains(T, x)
                /\ members(T) = members(S)
                /\ size(T) = size(S)]_vars

\* remove(x) was called with x a member, and other members are left
C6_Witness ==
    /\ op.name = "remove"
    /\ op.hit
    /\ ~ub
    /\ size(sets["A"]) >= 1

\* C7 (move semantics): for distinct sets s and o with x a member of s, not
\* of o, and o with a free slot, s.move_to(x, o) takes x out of s (size - 1,
\* the other members kept, o untouched) and then puts it into o (size + 1,
\* the other members kept, s untouched and still without x).
C7_MoveSemantics ==
    [][/\ (/\ pc = Idle
           /\ op'.name = "move_to"
           /\ op'.s # op'.o
           /\ op'.hit /\ ~op'.ohit
           /\ HasRoom(sets[op'.o])) =>
                /\ ~ub'
                /\ pc'.at = "moving" /\ pc'.s = op'.s /\ pc'.o = op'.o
                /\ MoveToRemove(pc'.s, pc'.o, pc'.x)
                /\ contains(sets[pc'.s], pc'.x)
                /\ ~contains(sets[pc'.o], pc'.x)
                /\ InBounds(sets'[pc'.s])
                /\ ~contains(sets'[pc'.s], pc'.x)
                /\ size(sets'[pc'.s]) = size(sets[pc'.s]) - 1
                /\ members(sets'[pc'.s]) = members(sets[pc'.s]) \ {pc'.x}
                /\ sets'[pc'.o] = sets[pc'.o]
       /\ (/\ MoveToInsert
           /\ pc.s # pc.o
           /\ op.hit /\ ~op.ohit
           /\ HasRoom(sets[pc.o])) =>
                /\ ~ub'
                /\ pc' = Idle
                /\ contains(sets'[pc.o], pc.x)
                /\ size(sets'[pc.o]) = size(sets[pc.o]) + 1
                /\ members(sets'[pc.o]) = members(sets[pc.o]) \cup {pc.x}
                /\ sets'[pc.s] = sets[pc.s]
                /\ ~contains(sets'[pc.s], pc.x)]_vars

\* a move_to between two sets has finished: x was in s only; s keeps another
\* member and o had one already
C7_Witness ==
    /\ pc = Idle
    /\ op.name = "move_to"
    /\ op.s # op.o
    /\ op.hit
    /\ ~op.ohit
    /\ ~ub
    /\ size(sets[op.s]) >= 1
    /\ size(sets[op.o]) >= 2

\* C8 (clear): clear() gives size() = 0 and contains(v) = false for every v
\* while the slots keep their old values; an insert(y) right after it gives
\* a set whose only member is y.
C8_Clear ==
    [][/\ \A s \in {op'.s} :
            Clear(s) =>
                /\ size(sets'[s]) = 0
                /\ empty(sets'[s])
                /\ sets'[s].elements = sets[s].elements
                /\ \A v \in Vals \cup {Fill} : ~Has(sets'[s], v)
       /\ \A s \in {op.s}, y \in Vals :
            (op.name = "clear" /\ Insert(s, y) /\ ~ub') =>
                /\ members(sets'[s]) = {y}
                /\ size(sets'[s]) = 1]_vars

\* clear() was called on a set whose slots hold node ids
C8_Witness ==
    /\ op.name = "clear"
    /\ ~ub
    /\ size(sets["A"]) = 0
    /\ \E i \in Stale(sets["A"]), j \in Stale(sets["A"]) :
           i # j /\ at(sets["A"], i) \in Vals /\ at(sets["A"], j) \in Vals

\* C9 (bulk construction): after init_from_adj(adj, node) on a set in any
\* reachable state, the members are exactly the neighbours adj[node] and
\* size() is the number of distinct neighbours.
C9_BulkExact ==
    [][\A n \in 1 .. MaxCap, nbrs \in NbrLists :
        (InitFromAdj("A", Adj(n, nbrs), n - 1) /\ InBounds(sets["A"]) /\ ~ub') =>
            /\ InBounds(sets'["A"])
            /\ members(sets'["A"]) = Range(nbrs)
            /\ size(sets'["A"]) = Cardinality(Range(nbrs))]_vars

\* what resize is claimed to keep: the cursors, size(), every slot of the
\* active range, the members and their distinctness
ResizeKeeps(S, R) ==
    /\ R.first = S.first
    /\ R.last = S.last
    /\ size(R) = size(S)
    /\ InBounds(R)
    /\ \A index \in Active(S) : at(R, index) = at(S, index)
    /\ members(R) = members(S)
    /\ Distinct(R) <=> Distinct(S)

\* C10 as stated (resize preserves the set): for every newCapacity,
\* resize(newCapacity) leaves first, last, size() and every slot of the
\* active range unchanged.
C10_ResizeAny ==
    [][\A n \in 0 .. MaxCap :
        (Resize("A", n) /\ InBounds(sets["A"])) =>
            ResizeKeeps(sets["A"], sets'["A"])]_vars

\* C10 as amended: resize(newCapacity) with newCapacity >= last + 1 leaves
\* first, last, size() and every slot of the active range unchanged; with
\* newCapacity < last + 1 it keeps last and drops the slots newCapacity..last,
\* and a later resize back to a larger capacity fills them with -1.
C10_ResizeWithin ==
    [][\A n \in 0 .. MaxCap :
        (Resize("A", n) /\ InBounds(sets["A"])) =>
            LET S == sets["A"]
                R == sets'["A"]
            IN  /\ n >= S.last + 1 => ResizeKeeps(S, R)
                /\ n < S.last + 1 =>
                       /\ R.last = S.last
                       /\ Len(R.elements) = n
                       /\ ~InBounds(R)
                       /\ \A m \in S.last + 1 .. MaxCap :
                              \A index \in n .. S.last :
                                  at(resize(R, m), index) = Fill]_vars

\* resize made the vector shorter, and the members are still all there
C10_Witness ==
    /\ op.name = "resize"
    /\ op.hit
    /\ ~ub
    /\ InBounds(sets["A"])
    /\ size(sets["A"]) >= 2

\* C11 (fresh and re-initialized sets): a set just built with any capacity,
\* the default constructor's 0 included, has size() = 0 and empty() = true;
\* right after init(c), whatever the members and the capacity were before,
\* size() = 0, empty() = true and contains(v) = false for every v.
C11_FreshEmpty ==
    /\ op.name = "new" =>
           \A s \in Sets : size(sets[s]) = 0 /\ empty(sets[s])
    /\ op.name = "init" =>
           LET S == sets[op.s] IN
           /\ ~ub
           /\ size(S) = 0
           /\ empty(S)
           /\ InBounds(S)
           /\ \A v \in Vals \cup {Fill} : ~contains(S, v)

\* init(c) was called on a set with members, with c smaller than the
\* capacity, and a slot still holds one of the old members
C11_Witness ==
    /\ op.name = "init"
    /\ op.hit
    /\ ~ub
    /\ \E index \in Stale(sets["A"]) : at(sets["A"], index) \in Vals

\* C12 (iteration covers exactly the members): in every state reached by
\* insert, remove, move_to, clear, init and init_from_adj, the sequence from
\* begin() to end() has length size(), holds no value twice, and holds v if
\* and only if contains(v) is true.
C12_IterationExact ==
    \A s \in Sets :
        LET S == sets[s]
            visited == begin_end(S)
        IN  InBounds(S) =>
                /\ Len(visited) = size(S)
                /\ \A i \in DOMAIN visited, j \in DOMAIN visited :
                       i # j => visited[i] # visited[j]
                /\ \A v \in Vals \cup {Fill} :
                       v \in Range(visited) <=> contains(S, v)

\* C13 (move_to is two mutation events): when s.move_to(x, o) is called on
\* distinct sets with x a member of s and not of o, the state between
\* this->remove(x) and other.insert(x) is a state of the program of its
\* own, and in it x is a member of neither s nor o.
C13_MoveIntermediate ==
    (pc.at = "moving" /\ pc.s # pc.o /\ op.hit /\ ~op.ohit) =>
        /\ ~ub
        /\ op.name = "move_to" /\ op.s = pc.s /\ op.o = pc.o
        /\ InBounds(sets[pc.s])
        /\ InBounds(sets[pc.o])
        /\ ~contains(sets[pc.s], pc.x)
        /\ ~contains(sets[pc.o], pc.x)

\* between the two statements of a move_to of x from s to o, both sets
\* holding another member
C13_Witness ==
    /\ pc.at = "moving"
    /\ pc.s # pc.o
    /\ op.hit
    /\ ~op.ohit
    /\ ~ub
    /\ size(sets[pc.s]) >= 1
    /\ size(sets[pc.o]) >= 1

\* C14 (swap-to-end removal): when remove(x) finds x at index i of the
\* active range, afterwards last is one less, slot i holds the value that was
\* at the old last index (when i was not the last index), and every other
\* slot of the new active range holds the value it held before.
C14_SwapToEnd ==
    [][\A x \in Vals :
        (RemoveCall("A", x) /\ Has(sets["A"], x)) =>
            LET S == sets["A"]
                R == sets'["A"]
                i == foundAt(S, x)
            IN  /\ ~ub'
                /\ at(S, i) = x
                /\ R.first = S.first
                /\ R.last = S.last - 1
                /\ i # S.last => at(R, i) = at(S, S.last)
                /\ \A j \in Active(R) : j # i => at(R, j) = at(S, j)]_vars

\* remove(x) found x at the first of three active slots
C14_Witness ==
    /\ op.name = "remove"
    /\ op.hit
    /\ ~ub
    /\ given = <<0>>
    /\ sets["A"].last = 1

\* C15 as stated (frame of remove): when remove(x) finds x at index i, the
\* only slot of the vector it writes is slot i; the slot at the old last
\* index keeps the value it had before the call.
C15_WritesOnlyFound ==
    [][\A x \in Vals :
        (RemoveCall("A", x) /\ Has(sets["A"], x)) =>
            LET S == sets["A"]
                R == sets'["A"]
                i == foundAt(S, x)
            IN  /\ \A j \in 0 .. Len(S.elements) - 1 :
                       j # i => at(R, j) = at(S, j)
                /\ at(R, S.last) = at(S, S.last)]_vars

\* C15 as amended: when remove(x) finds x at index i, the only slots of the
\* vector it writes are slot i and the slot at the old last index: slot i
\* gets the value of the old last slot and the old last slot gets x, so
\* at(old last) returns x after the call, whatever it returned before; every
\* other slot keeps its value.
C15_WritesFoundAndLast ==
    [][\A x \in Vals :
        (RemoveCall("A", x) /\ Has(sets["A"], x)) =>
            LET S == sets["A"]
                R == sets'["A"]
                i == foundAt(S, x)
            IN  /\ Len(R.elements) = Len(S.elements)
                /\ \A j \in 0 .. Len(S.elements) - 1 :
                       (j # i /\ j # S.last) => at(R, j) = at(S, j)
                /\ i # S.last => at(R, i) = at(S, S.last)
                /\ at(R, S.last) = x]_vars

\* remove(x) found x at index 0 with the last index 1: slot 1 now holds x,
\* and slot 2, outside the active range before and after, a node id
C15_Witness ==
    /\ op.name = "remove"
    /\ op.hit
    /\ ~ub
    /\ given = <<0>>
    /\ sets["A"].last = 0
    /\ at(sets["A"], 1) \in Vals
    /\ Len(sets["A"].elements) = 3
    /\ at(sets["A"], 2) \in Vals

\* C16 (capacity safety): for sets built or initialized with a capacity c
\* and never resized, with every value passed to insert and move_to in
\* 0..c-1, after any sequence of insert, remove, move_to and clear
\* last <= c - 1 holds and no insert has written outside the slots 0..c-1.
C16_CapacitySafe ==
    /\ ~ub
    /\ \A s \in Sets :
           /\ sets[s].first = 0
           /\ sets[s].last <= Len(sets[s].elements) - 1
           /\ \A x \in CapVals(s) : insertOK(sets[s], x)

\* an insert has just filled the last slot of a set of two or more slots
C16_Witness ==
    /\ op.name = "insert"
    /\ ~op.hit
    /\ ~ub
    /\ Len(sets[op.s].elements) >= 2
    /\ sets[op.s].last = Len(sets[op.s].elements) - 1

\* |s| + |o| before a move_to from s to o whose second statement is about to
\* run (the first statement took one member out of s if it found x), and
\* after it
TotalBefore == size(sets[pc.s]) + (IF op.hit THEN 1 ELSE 0) + size(sets[pc.o])
TotalAfter == size(sets'[pc.s]) + size(sets'[pc.o])

\* the first statement of a move_to that finds x in s makes s one smaller
FoundSourceStep ==
    (pc = Idle /\ op'.name = "move_to" /\ op'.hit) =>
        /\ ~ub'
        /\ pc'.at = "moving"
        /\ size(sets'[op'.s]) = size(sets[op'.s]) - 1

\* what move_to does for distinct sets s and o when x is not a member of s:
\* the first statement changes nothing, the second leaves s unchanged and
\* makes x a member of o, whose size grows by 1 if x was not in it
AbsentSourceSteps ==
    /\ (/\ pc = Idle
        /\ op'.name = "move_to"
        /\ op'.s # op'.o
        /\ ~op'.hit) =>
             /\ ~ub'
             /\ pc'.at = "moving"
             /\ sets' = sets
    /\ (/\ MoveToInsert
        /\ pc.s # pc.o
        /\ ~op.hit
        /\ ~ub') =>
             /\ sets'[pc.s] = sets[pc.s]
             /\ contains(sets'[pc.o], pc.x)
             /\ size(sets'[pc.o]) = size(sets[pc.o]) + (IF op.ohit THEN 0 ELSE 1)

\* C17 as stated (move_to with an absent source element): for distinct sets
\* A and B with x not a member of A, A.move_to(x, B) leaves A unchanged and
\* makes x a member of B (|B| + 1 if x was not in B); |A| + |B| is conserved
\* by a move_to only when x was a member of A and not of B.
C17_AbsentSource ==
    [][/\ AbsentSourceSteps
       /\ FoundSourceStep
       /\ (MoveToInsert /\ pc.s # pc.o /\ ~ub') =>
              (TotalAfter = TotalBefore => (op.hit /\ ~op.ohit))]_vars

\* C17 as amended: for distinct sets A and B with x not a member of A,
\* A.move_to(x, B) leaves A unchanged and makes x a member of B (|B| + 1 if
\* x was not in B); |A| + |B| is conserved by a move_to exactly when x was a
\* member of one of A and B and not of the other: moved if it was in A,
\* nothing changed if it was in B.
C17_AbsentSourceTotal ==
    [][/\ AbsentSourceSteps
       /\ FoundSourceStep
       /\ (MoveToInsert /\ pc.s # pc.o /\ ~ub') =>
              /\ TotalAfter = TotalBefore <=> (op.hit # op.ohit)
              /\ (~op.hit /\ op.ohit) => sets' = sets]_vars

\* a move_to of x from s, with a member but not x, to o has finished: o has
\* x as a second member
C17_Witness ==
    /\ pc = Idle
    /\ op.name = "move_to"
    /\ op.s # op.o
    /\ ~op.hit
    /\ ~op.ohit
    /\ ~ub
    /\ size(sets[op.s]) >= 1
    /\ size(sets[op.o]) >= 2

\* C18 (self-move): s.move_to(x, s) with x a member of s, found at index i,
\* leaves the members, size(), the cursors and the capacity unchanged and
\* indexes no slot outside the vector; x ends up stored at index last, the
\* value that was there takes slot i, and every other slot keeps its value.
C18_SelfMove ==
    [][/\ (/\ pc = Idle
           /\ op'.name = "move_to"
           /\ op'.s = op'.o
           /\ op'.hit) =>
                LET S == sets[op'.s]
                    x == pc'.x
                    i == foundAt(S, x)
                    M == remove(S, x)
                    R == insert(M, x)
                IN  /\ ~ub'
                    /\ pc'.at = "moving" /\ pc'.s = op'.s /\ pc'.o = op'.s
                    /\ contains(S, x)
                    /\ sets'[op'.s] = M
                    /\ insertOK(M, x)
                    /\ members(R) = members(S)
                    /\ size(R) = size(S)
                    /\ R.first = S.first /\ R.last = S.last
                    /\ Len(R.elements) = Len(S.elements)
                    /\ InBounds(R)
                    /\ at(R, R.last) = x
                    /\ i # S.last => at(R, i) = at(S, S.last)
                    /\ \A j \in 0 .. Len(S.elements) - 1 :
                           (j # i /\ j # S.last) => at(R, j) = at(S, j)
       /\ (/\ MoveToInsert
           /\ pc.s = pc.o
           /\ op.hit) =>
                /\ ~ub'
                /\ pc' = Idle
                /\ sets'[pc.s] = insert(sets[pc.s], pc.x)
                /\ at(sets'[pc.s], sets'[pc.s].last) = pc.x
                /\ size(sets'[pc.s]) = size(sets[pc.s]) + 1]_vars

\* a move_to of a member of A to A itself has finished, A having three
\* members
C18_Witness ==
    /\ pc = Idle
    /\ op.name = "move_to"
    /\ op.s = op.o
    /\ op.hit
    /\ ~ub
    /\ size(sets[op.s]) = 3

====
